---- MODULE Spec2Model ----
(***************************************************************************)
(* Menu Master browser client: token store, session inspector, navigation  *)
(* guard, auth gateway with the login page, and the onboarding             *)
(* conversation controller.                                                *)
(*                                                                         *)
(* JavaScript values are modelled as records so that values of different   *)
(* shapes can be compared: null is [null |-> TRUE], an object carries the  *)
(* fields it has (a missing field reads as undefined).  A stored string is *)
(* the sequence of its '.'-separated segments; no stored string (getItem   *)
(* returning null) is the empty sequence.                                  *)
(***************************************************************************)
EXTENDS Integers, Sequences, FiniteSets, TLC

VARIABLES
    token,          \* localStorage[TOKEN_KEY]; Absent when the key is not set
    now,            \* Date.now(), in milliseconds
    path,           \* window.location.pathname of the loaded document
    href,           \* window.location.href as last assigned (= path when none)
    last,           \* the most recent operation and what it did
    lastRedirect,   \* the most recent redirectBasedOnStatus call
    pc,             \* "idle", or the point the running handler has reached
    cur,            \* the running handler's local data
    isSignupMode,   \* login page: signup instead of login
    authReqs,       \* login page: auth requests in flight
    meReqs,         \* getCurrentUser requests in flight
    errorMessage,   \* login page: the error shown (Hidden when hidden)
    submitDisabled, \* login page: submitBtn.disabled
    nAuth,          \* login page: auth requests issued so far
    nMe,            \* getCurrentUser requests issued so far
    sessionId,      \* onboarding page: let sessionId
    profile,        \* onboarding page: let profile
    currentUser,    \* onboarding page: let currentUser
    transcript,     \* onboarding page: children of chatContainer
    startReqs,      \* onboarding page: number of /onboarding/start requests in flight
    msgReqs,        \* onboarding page: /onboarding/message requests in flight
    finReqs,        \* onboarding page: /onboarding/finalize requests in flight
    alerts,         \* onboarding page: alert() calls so far
    sendDisabled,   \* onboarding page: sendBtn.disabled
    startModalHidden, \* onboarding page: startModal has class hidden
    profileShown,   \* onboarding page: profileModal has no class hidden
    nStart,         \* onboarding page: start submissions so far
    nSend,          \* onboarding page: message requests issued so far
    nComplete,      \* onboarding page: replies with is_complete received so far
    nFin,           \* onboarding page: finalize requests issued so far
    currentMenu,    \* menu page: let currentMenu
    allDishes,      \* menu page: let allDishes
    weekDate,       \* menu page: weekDateEl.textContent
    dishGrid,       \* menu page: what dishGridEl shows
    fetchState      \* menu page: the fetchMenu call: not made, pending, or how it ended

navVars == <<token, now, path, href, last, lastRedirect>>
runVars == <<pc, cur>>
loginVars == <<isSignupMode, authReqs, meReqs, errorMessage, submitDisabled, nAuth, nMe>>
onbVars == <<sessionId, profile, currentUser, transcript, startReqs, msgReqs,
             finReqs, alerts, sendDisabled, startModalHidden, profileShown,
             nStart, nSend, nComplete, nFin>>
menuVars == <<currentMenu, allDishes, weekDate, dishGrid, fetchState>>
vars == <<navVars, runVars, loginVars, onbVars, menuVars>>

(***************************************************************************)
(* Values                                                                  *)
(***************************************************************************)
Null == [null |-> TRUE]
Undefined == "undefined"
None == "none"
Absent == <<>>
Hidden == "hidden"

LoginPath == "/login.html"
RootPath == "/"
IndexPath == "/index.html"
MenuPath == "/menu.html"
OtherPath == "/other.html"
Paths == {LoginPath, RootPath, IndexPath, MenuPath, OtherPath}

MsPerSec == 1000

Has(o, f) == f \in DOMAIN o
Get(o, f) == IF Has(o, f) THEN o[f] ELSE Undefined

(***************************************************************************)
(* Encodings.  A segment of a stored string is a term: raw text that is    *)
(* not base64, or the base64url encoding of bytes; bytes are the UTF-8     *)
(* encoding of a text, or no valid UTF-8; a text is the JSON text of a     *)
(* value, or no JSON.                                                      *)
(***************************************************************************)
RawSeg == [k |-> "raw"]
JsonObj(claims) == [k |-> "obj", f |-> claims]
JsonNull == [k |-> "null"]
JsonNum == [k |-> "num"]
JsonText(v) == [k |-> "json", v |-> v]
NotJsonText == [k |-> "text"]
Utf8(text) == [k |-> "utf8", text |-> text]
BadBytes == [k |-> "bytes"]
B64Url(bytes) == [k |-> "b64url", bytes |-> bytes]
Encode(v) == B64Url(Utf8(JsonText(v)))

Exps == {1, 2}
ExpEarly == CHOOSE e \in Exps : \A f \in Exps : e <= f
ExpLate == CHOOSE e \in Exps : \A f \in Exps : e >= f
Times == UNION {{e * MsPerSec - 1, e * MsPerSec, e * MsPerSec + 1} : e \in Exps}

Claims(sub, exp, onb) == [sub |-> sub, email |-> "a@b.com", exp |-> exp, is_onboarded |-> onb]
Jwt(v) == <<RawSeg, Encode(v), RawSeg>>

TokNew == Jwt(JsonObj(Claims("u1", ExpLate, FALSE)))
TokOnb == Jwt(JsonObj(Claims("u1", ExpLate, TRUE)))
TokNoFlag == Jwt(JsonObj([sub |-> "u2", email |-> "c@d.com", exp |-> ExpLate]))
TokOldNew == Jwt(JsonObj(Claims("u1", ExpEarly, FALSE)))
TokOldOnb == Jwt(JsonObj(Claims("u1", ExpEarly, TRUE)))
TokNoExp == Jwt(JsonObj([sub |-> "u1", email |-> "a@b.com", is_onboarded |-> TRUE]))
TokTwoSeg == <<RawSeg, Encode(JsonObj(Claims("u1", ExpLate, TRUE)))>>
TokNoDot == <<RawSeg>>
TokNotB64 == <<RawSeg, RawSeg, RawSeg>>
TokBadBytes == <<RawSeg, B64Url(BadBytes), RawSeg>>
TokNotJson == <<RawSeg, B64Url(Utf8(NotJsonText)), RawSeg>>
TokJsonNull == Jwt(JsonNull)
TokJsonNum == Jwt(JsonNum)

DecodableTokens == {TokNew, TokOnb, TokNoFlag, TokOldNew, TokOldOnb, TokNoExp, TokTwoSeg,
                    TokJsonNull, TokJsonNum}
MalformedTokens == {TokNoDot, TokNotB64, TokBadBytes, TokNotJson}
Tokens == DecodableTokens \cup MalformedTokens
Stored == Tokens \cup {Absent}

(***************************************************************************)
(* Token store (auth.js)                                                   *)
(***************************************************************************)
getToken(store) == store

setTokenDropsMalformed(t) == IF Len(t) < 3 THEN Absent ELSE t

setToken(t) == t

clearToken == Absent

\* a JavaScript string is falsy iff it is empty; null is falsy
Truthy(t) == t # Absent

(***************************************************************************)
(* Session inspector (auth.js)                                             *)
(***************************************************************************)
Threw == [threw |-> TRUE]
Returned(v) == [threw |-> FALSE, value |-> v]

\* base64Url.replace(/-/g, '+').replace(/_/g, '/')
B64UrlToStd(seg) == IF seg.k = "b64url" THEN [k |-> "b64", bytes |-> seg.bytes] ELSE seg

\* atob: throws on anything that is not base64
atob(seg) == IF seg.k = "b64" THEN Returned(seg.bytes) ELSE Threw

\* decodeURIComponent of the percent-escaped bytes: throws on invalid UTF-8
decodeURIComponent(bytes) == IF bytes.k = "utf8" THEN Returned(bytes.text) ELSE Threw

\* JSON.parse: throws on anything that is not JSON
JSONparse(text) == IF text.k = "json" THEN Returned(text.v) ELSE Threw

parseJwt(t) ==
    IF Len(t) < 2 THEN Threw    \* split('.')[1] is undefined; .replace throws
    ELSE LET base64 == B64UrlToStd(t[2])
             bytes == atob(base64)
         IN IF bytes.threw THEN Threw
            ELSE LET text == decodeURIComponent(bytes.value)
                 IN IF text.threw THEN Threw ELSE JSONparse(text.value)

\* property read payload.f: throws on null, undefined on a primitive or a missing field
NoValue == [threw |-> FALSE, undef |-> TRUE]
Prop(v, f) ==
    IF v.k = "null" THEN [threw |-> TRUE, undef |-> TRUE]
    ELSE IF v.k = "obj" /\ Has(v.f, f) THEN [threw |-> FALSE, undef |-> FALSE, value |-> v.f[f]]
    ELSE NoValue

isAuthenticatedLate(store, t) ==
    LET tok == getToken(store) IN
    IF ~Truthy(tok) THEN FALSE
    ELSE LET payload == parseJwt(tok) IN
         IF payload.threw THEN FALSE
         ELSE LET exp == Prop(payload.value, "exp") IN
              IF exp.threw \/ exp.undef THEN FALSE
              ELSE t <= exp.value * MsPerSec

isAuthenticated(store, t) ==
    LET tok == getToken(store) IN
    IF ~Truthy(tok) THEN FALSE
    ELSE LET payload == parseJwt(tok) IN
         IF payload.threw THEN FALSE
         ELSE LET exp == Prop(payload.value, "exp") IN
              IF exp.threw THEN FALSE        \* TypeError, caught
              ELSE IF exp.undef THEN FALSE   \* Date.now() < NaN
              ELSE t < exp.value * MsPerSec

UserOnboarded(sub, email, onb) ==
    [null |-> FALSE, user_id |-> sub, email |-> email, is_onboarded |-> TRUE]

User(sub, email, onb) == [null |-> FALSE, user_id |-> sub, email |-> email, is_onboarded |-> onb]

getUserFromToken(store) ==
    LET tok == getToken(store) IN
    IF ~Truthy(tok) THEN Null
    ELSE LET payload == parseJwt(tok) IN
         IF payload.threw THEN Null
         ELSE LET sub == Prop(payload.value, "sub")
                  email == Prop(payload.value, "email")
                  onb == Prop(payload.value, "is_onboarded")
              IN IF sub.threw THEN Null      \* TypeError, caught
                 ELSE User(IF sub.undef THEN Undefined ELSE sub.value,
                           IF email.undef THEN Undefined ELSE email.value,
                           IF onb.undef THEN FALSE ELSE onb.value)   \* || false

Users == {getUserFromToken(t) : t \in Stored}

(***************************************************************************)
(* Navigation guard (auth.js)                                              *)
(***************************************************************************)
\* redirectBasedOnStatus: the href it assigns on pathname p, or None
redirectAlways(user, p) ==
    IF user = Null THEN LoginPath
    ELSE IF ~user.is_onboarded THEN RootPath
    ELSE MenuPath

redirectForgetIndex(user, p) ==
    IF user = Null
    THEN (IF p # LoginPath THEN LoginPath ELSE None)
    ELSE IF ~user.is_onboarded
    THEN (IF p # RootPath THEN RootPath ELSE None)
    ELSE IF p = LoginPath \/ p = RootPath THEN MenuPath ELSE None

redirectBasedOnStatus(user, p) ==
    IF user = Null
    THEN (IF p # LoginPath THEN LoginPath ELSE None)
    ELSE IF ~user.is_onboarded
    THEN (IF p # RootPath /\ p # IndexPath THEN RootPath ELSE None)
    ELSE IF p = LoginPath \/ p = RootPath \/ p = IndexPath THEN MenuPath ELSE None

checkAuthAndRedirect(store, p) == redirectBasedOnStatus(getUserFromToken(store), p)

\* login page, "Check if already authenticated"
loginPageCheck(store, t, p) ==
    IF isAuthenticated(store, t)
    THEN redirectBasedOnStatus(getUserFromToken(store), p)
    ELSE None

\* onboarding page, checkAuth(): the href assigned (or None) and currentUser
checkAuth(loaded, store, t) ==
    IF ~loaded THEN [to |-> LoginPath, user |-> Null]
    ELSE IF ~isAuthenticated(store, t) THEN [to |-> LoginPath, user |-> Null]
    ELSE LET u == getUserFromToken(store) IN
         IF u # Null /\ u.is_onboarded THEN [to |-> MenuPath, user |-> u]
         ELSE [to |-> None, user |-> u]

\* menu page of src/frontend, DOMContentLoaded: the user id comes from the query string
\* or from localStorage['menu_master_user_id']; the credential is not consulted
menuPageLoadByUserId(urlUserId, storedUserId) ==
    LET userId == IF urlUserId # None THEN urlUserId ELSE storedUserId
    IN [to |-> None, fetch |-> userId]

menuPageLoadToLogin(loaded, store, t) ==
    IF ~loaded \/ ~isAuthenticated(store, t) THEN [to |-> LoginPath, fetch |-> None]
    ELSE LET u == getUserFromToken(store) IN
         IF u # Null /\ ~u.is_onboarded THEN [to |-> LoginPath, fetch |-> None]
         ELSE IF u = Null THEN [to |-> None, fetch |-> None]
         ELSE [to |-> None, fetch |-> u.user_id]

\* menu page, DOMContentLoaded: the href assigned (or None) and the user id fetched for
menuPageLoad(loaded, store, t) ==
    IF ~loaded \/ ~isAuthenticated(store, t) THEN [to |-> LoginPath, fetch |-> None]
    ELSE LET u == getUserFromToken(store) IN
         IF u # Null /\ ~u.is_onboarded THEN [to |-> RootPath, fetch |-> None]
         ELSE IF u = Null THEN [to |-> None, fetch |-> None]   \* TypeError on null.user_id
         ELSE [to |-> None, fetch |-> u.user_id]

Assign(target, h) == IF target = None THEN h ELSE target

(***************************************************************************)
(* Initial values of the page scripts' state                               *)
(***************************************************************************)
NoCall == [op |-> "none"]
NoRedirect == [user |-> Null, path |-> None, target |-> None]
NoCur == [op |-> "none"]

RunInit == pc = "idle" /\ cur = NoCur

LoginInit ==
    /\ isSignupMode = FALSE
    /\ authReqs = {}
    /\ meReqs = {}
    /\ errorMessage = Hidden
    /\ submitDisabled = FALSE
    /\ nAuth = 0
    /\ nMe = 0

OnbInit ==
    /\ sessionId = Null
    /\ profile = Null
    /\ currentUser = Null
    /\ transcript = <<>>
    /\ startReqs = 0
    /\ msgReqs = {}
    /\ finReqs = {}
    /\ alerts = <<>>
    /\ sendDisabled = FALSE
    /\ startModalHidden = FALSE
    /\ profileShown = FALSE
    /\ nStart = 0
    /\ nSend = 0
    /\ nComplete = 0
    /\ nFin = 0

\* the menu page's markup, before its script has shown anything
InitialLabel == <<"markup">>
View(kind, dishes, message) == [kind |-> kind, dishes |-> dishes, message |-> message]
Markup == View("markup", <<>>, "")

MenuIdle ==
    /\ currentMenu = Null
    /\ allDishes = <<>>
    /\ weekDate = InitialLabel
    /\ dishGrid = Markup
    /\ fetchState = "none"

(***************************************************************************)
(* The exported functions called on any pathname, and the page loads       *)
(***************************************************************************)
CallIsAuthenticated ==
    /\ last' = [op |-> "isAuthenticated", tok |-> token, at |-> now,
                ret |-> isAuthenticated(token, now)]
    /\ UNCHANGED <<token, now, menuVars, path, href, lastRedirect, runVars, loginVars, onbVars>>

CallGetUserFromToken ==
    /\ last' = [op |-> "getUserFromToken", tok |-> token, ret |-> getUserFromToken(token)]
    /\ UNCHANGED <<token, now, menuVars, path, href, lastRedirect, runVars, loginVars, onbVars>>

CallRedirectBasedOnStatus(user) ==
    LET target == redirectBasedOnStatus(user, path) IN
    /\ href' = Assign(target, href)
    /\ lastRedirect' = [user |-> user, path |-> path, target |-> target]
    /\ last' = [op |-> "redirectBasedOnStatus", user |-> user, path |-> path,
                before |-> href, prior |-> lastRedirect]
    /\ UNCHANGED <<token, now, menuVars, path, runVars, loginVars, onbVars>>

CallCheckAuthAndRedirect ==
    LET user == getUserFromToken(token)
        target == checkAuthAndRedirect(token, path)
    IN
    /\ href' = Assign(target, href)
    /\ lastRedirect' = [user |-> user, path |-> path, target |-> target]
    /\ last' = [op |-> "checkAuthAndRedirect", tok |-> token, at |-> now, path |-> path,
                before |-> href]
    /\ UNCHANGED <<token, now, menuVars, path, runVars, loginVars, onbVars>>

\* the document at p is loaded and its script's load-time check runs
PageGuard(p, loaded, store, t) ==
    IF p = LoginPath THEN loginPageCheck(store, t, p)
    ELSE IF p = RootPath \/ p = IndexPath THEN checkAuth(loaded, store, t).to
    ELSE IF p = MenuPath THEN menuPageLoad(loaded, store, t).to
    ELSE None

LoadPage(p, loaded) ==
    /\ path' = p
    /\ href' = Assign(PageGuard(p, loaded, token, now), p)
    /\ last' = [op |-> "load", tok |-> token, at |-> now, page |-> p, loaded |-> loaded,
                fetch |-> IF p = MenuPath THEN menuPageLoad(loaded, token, now).fetch
                          ELSE None]
    /\ UNCHANGED <<token, now, menuVars, lastRedirect, runVars, loginVars, onbVars>>

OpenPage == \E p \in Paths, loaded \in BOOLEAN : LoadPage(p, loaded)

FollowRedirect == href # path /\ \E loaded \in BOOLEAN : LoadPage(href, loaded)

\* the menu page of src/frontend is loaded, with or without ?user_id= and the stored id
UserIdInputs == {None, "u9"}
LoadMenuPageByUserId ==
    \E urlUserId \in UserIdInputs, storedUserId \in UserIdInputs :
        /\ path' = MenuPath
        /\ href' = Assign(menuPageLoadByUserId(urlUserId, storedUserId).to, MenuPath)
        /\ last' = [op |-> "loadMenuByUserId", tok |-> token, at |-> now,
                    fetch |-> menuPageLoadByUserId(urlUserId, storedUserId).fetch]
        /\ UNCHANGED <<token, now, menuVars, lastRedirect, runVars, loginVars, onbVars>>

NavInit ==
    /\ token \in Stored
    /\ now \in Times
    /\ path \in Paths
    /\ href = path
    /\ last = NoCall
    /\ lastRedirect = NoRedirect
    /\ RunInit /\ LoginInit /\ OnbInit /\ MenuIdle

NavNext ==
    \/ CallIsAuthenticated
    \/ CallGetUserFromToken
    \/ \E user \in Users : CallRedirectBasedOnStatus(user)
    \/ CallCheckAuthAndRedirect
    \/ OpenPage
    \/ FollowRedirect
    \/ LoadMenuPageByUserId

SpecNav == NavInit /\ [][NavNext]_vars

(***************************************************************************)
(* The token store called on its own, from any page                        *)
(***************************************************************************)
\* the most recent setToken or clearToken, or none yet
NoWrite == [op |-> "none", arg |-> Absent]
LastWrite == IF Has(last, "write") THEN last.write ELSE NoWrite

CallSetToken ==
    \E t \in Tokens :
        /\ token' = setToken(t)
        /\ last' = [op |-> "setToken", arg |-> t, write |-> [op |-> "setToken", arg |-> t]]
        /\ UNCHANGED <<now, path, href, lastRedirect, runVars, loginVars, onbVars, menuVars>>

CallClearToken ==
    /\ token' = clearToken
    /\ last' = [op |-> "clearToken", write |-> [op |-> "clearToken", arg |-> Absent]]
    /\ UNCHANGED <<now, path, href, lastRedirect, runVars, loginVars, onbVars, menuVars>>

CallGetToken ==
    /\ last' = [op |-> "getToken", ret |-> getToken(token), before |-> token,
                write |-> LastWrite]
    /\ UNCHANGED <<token, now, path, href, lastRedirect, runVars, loginVars, onbVars,
                   menuVars>>

StoreInit == NavInit

StoreNext ==
    \/ CallSetToken
    \/ CallClearToken
    \/ CallGetToken

SpecStore == StoreInit /\ [][StoreNext]_vars

(***************************************************************************)
(* Auth gateway (auth.js): signup, login, googleAuth, getCurrentUser       *)
(*                                                                         *)
(* A response is a transport failure (fetch rejects), or a status with a   *)
(* body; the body is a text, JSON or not.  Success bodies have the shape   *)
(* of the backend interface; error bodies are whatever the backend or a    *)
(* proxy in front of it sends.                                             *)
(***************************************************************************)
MaxAuth == 2
MaxMe == 2

Unauthorized == 401

NetworkFailure == [net |-> FALSE]
Http(status, body) == [net |-> TRUE, ok |-> status \in 200..299, status |-> status, body |-> body]

FetchErrorMessage == "Failed to fetch"
JsonErrorMessage == "Unexpected token in JSON"
DetailMessage == "Email already registered"

AccessTokens == {TokNew, TokOnb}
AuthBodies == {JsonText(JsonObj([access_token |-> t, is_onboarded |-> o])) :
                 t \in AccessTokens, o \in BOOLEAN}
ErrorBodies == {JsonText(JsonObj([detail |-> DetailMessage])),
                JsonText(JsonObj([error |-> "x"])),
                NotJsonText}
AuthResponses == {NetworkFailure} \cup {Http(200, b) : b \in AuthBodies \cup {NotJsonText}}
                 \cup {Http(400, b) : b \in ErrorBodies}

UserBody == JsonText(JsonObj([id |-> "u1", email |-> "a@b.com"]))
MeResponses == {NetworkFailure, Http(200, UserBody), Http(Unauthorized, NotJsonText),
                Http(500, NotJsonText)}

Thrown(message) == [threw |-> TRUE, message |-> message]

\* response.json()
json(resp) == JSONparse(resp.body)

\* the common body of signup, login and googleAuth
authRequest(resp, fallback) ==
    IF ~resp.net THEN Thrown(FetchErrorMessage)         \* fetch rejects
    ELSE IF ~resp.ok
    THEN LET error == json(resp) IN
         IF error.threw THEN Thrown(JsonErrorMessage)   \* await response.json() rejects
         ELSE LET detail == Prop(error.value, "detail") IN
              Thrown(IF detail.undef THEN fallback ELSE detail.value)
    ELSE LET data == json(resp) IN
         IF data.threw THEN Thrown(JsonErrorMessage) ELSE data

signup(resp) == authRequest(resp, "Signup failed")

login(resp) == authRequest(resp, "Login failed")

googleAuth(resp) == authRequest(resp, "Google authentication failed")

AuthCall(kind, resp) ==
    IF kind = "signup" THEN signup(resp)
    ELSE IF kind = "login" THEN login(resp)
    ELSE googleAuth(resp)

\* getCurrentUser after the response: the store, and what the call returns or throws
getCurrentUserClearsOnAnyError(store, resp) ==
    IF ~resp.net THEN [store |-> store, threw |-> TRUE, message |-> FetchErrorMessage]
    ELSE IF ~resp.ok
    THEN [store |-> clearToken, threw |-> FALSE, value |-> Null]
    ELSE LET data == json(resp) IN
         IF data.threw THEN [store |-> store, threw |-> TRUE, message |-> JsonErrorMessage]
         ELSE [store |-> store, threw |-> FALSE, value |-> data.value]

getCurrentUser(store, resp) ==
    IF ~resp.net THEN [store |-> store, threw |-> TRUE, message |-> FetchErrorMessage]
    ELSE IF ~resp.ok
    THEN (IF resp.status = Unauthorized
          THEN [store |-> clearToken, threw |-> FALSE, value |-> Null]
          ELSE [store |-> store, threw |-> TRUE, message |-> "Failed to get user info"])
    ELSE LET data == json(resp) IN
         IF data.threw THEN [store |-> store, threw |-> TRUE, message |-> JsonErrorMessage]
         ELSE [store |-> store, threw |-> FALSE, value |-> data.value]

(***************************************************************************)
(* Login page (auth.js)                                                    *)
(***************************************************************************)
Idle == pc = "idle"

\* switchBtn click: toggle the mode; updateAuthMode hides the error
ToggleMode ==
    /\ Idle
    /\ isSignupMode' = ~isSignupMode
    /\ errorMessage' = Hidden
    /\ last' = [op |-> "toggle"]
    /\ UNCHANGED <<token, now, menuVars, path, href, lastRedirect, runVars, authReqs, meReqs,
                   submitDisabled, nAuth, nMe, onbVars>>

\* showLoading(true); hideError(); then the request of the chosen kind is issued
BeginAuth(kind) ==
    /\ Idle
    /\ nAuth < MaxAuth
    /\ nAuth' = nAuth + 1
    /\ submitDisabled' = TRUE
    /\ errorMessage' = Hidden
    /\ authReqs' = authReqs \cup {[id |-> nAuth + 1, kind |-> kind]}
    /\ last' = [op |-> "authSubmit", kind |-> kind]
    /\ UNCHANGED <<token, now, menuVars, path, href, lastRedirect, runVars, isSignupMode, meReqs,
                   nMe, onbVars>>

\* authForm submit; a disabled submit button submits nothing
SubmitAuthForm ==
    /\ ~submitDisabled
    /\ BeginAuth(IF isSignupMode THEN "signup" ELSE "login")

\* the Google Identity Services callback
handleGoogleSignIn == BeginAuth("google")

\* the request failed: showError(error.message); showLoading(false)
AuthResolveFail ==
    \E r \in authReqs, resp \in AuthResponses :
        LET out == AuthCall(r.kind, resp) IN
        /\ Idle
        /\ out.threw
        /\ authReqs' = authReqs \ {r}
        /\ errorMessage' = out.message
        /\ submitDisabled' = FALSE
        /\ last' = [op |-> "authFailed", kind |-> r.kind, resp |-> resp,
                    message |-> out.message, tokenBefore |-> token, hrefBefore |-> href]
        /\ UNCHANGED <<token, now, menuVars, path, href, lastRedirect, runVars, isSignupMode,
                       meReqs, nAuth, nMe, onbVars>>

\* the request succeeded: setToken(tokenResponse.access_token) ...
AuthResolveOk ==
    \E r \in authReqs, resp \in AuthResponses :
        LET out == AuthCall(r.kind, resp) IN
        /\ Idle
        /\ ~out.threw
        /\ authReqs' = authReqs \ {r}
        /\ token' = setToken(out.value.f.access_token)
        /\ pc' = "authRedirect"
        /\ cur' = [op |-> "auth", kind |-> r.kind, data |-> out.value.f, before |-> href]
        /\ last' = [op |-> "authStored", kind |-> r.kind]
        /\ UNCHANGED <<now, menuVars, path, href, lastRedirect, isSignupMode, meReqs, errorMessage,
                       submitDisabled, nAuth, nMe, onbVars>>

redirectAfterAuthInverted(data) == IF data.is_onboarded THEN RootPath ELSE MenuPath

\* "Redirect based on onboarding status"
redirectAfterAuth(data) == IF data.is_onboarded THEN MenuPath ELSE RootPath

\* ... then the redirect
AuthRedirect ==
    /\ pc = "authRedirect"
    /\ href' = redirectAfterAuth(cur.data)
    /\ pc' = "idle"
    /\ cur' = NoCur
    /\ last' = [op |-> "authRedirect", kind |-> cur.kind, data |-> cur.data,
                before |-> cur.before]
    /\ UNCHANGED <<token, now, menuVars, path, lastRedirect, loginVars, onbVars>>

\* getCurrentUser(): no request without a credential
CallGetCurrentUser ==
    /\ Idle
    /\ nMe < MaxMe
    /\ nMe' = nMe + 1
    /\ meReqs' = IF Truthy(getToken(token))
                 THEN meReqs \cup {[id |-> nMe + 1, bearer |-> getToken(token)]}
                 ELSE meReqs
    /\ last' = [op |-> "getCurrentUser", phase |-> "call", tokenBefore |-> token,
                reqsBefore |-> meReqs, threw |-> FALSE, value |-> Null]
    /\ UNCHANGED <<token, now, menuVars, path, href, lastRedirect, runVars, isSignupMode, authReqs,
                   errorMessage, submitDisabled, nAuth, onbVars>>

MeResolve ==
    \E r \in meReqs, resp \in MeResponses :
        LET out == getCurrentUser(token, resp) IN
        /\ Idle
        /\ meReqs' = meReqs \ {r}
        /\ token' = out.store
        /\ last' = [op |-> "getCurrentUser", phase |-> "response", resp |-> resp,
                    tokenBefore |-> token, out |-> out]
        /\ UNCHANGED <<now, menuVars, path, href, lastRedirect, runVars, isSignupMode, authReqs,
                       errorMessage, submitDisabled, nAuth, nMe, onbVars>>

AuthInit ==
    /\ token \in {Absent, TokOldOnb, TokNotJson}
    /\ now = ExpLate * MsPerSec
    /\ path = LoginPath
    /\ href = Assign(loginPageCheck(token, now, path), path)
    /\ last = NoCall
    /\ lastRedirect = NoRedirect
    /\ RunInit /\ LoginInit /\ OnbInit /\ MenuIdle

AuthNext ==
    \/ ToggleMode
    \/ SubmitAuthForm
    \/ handleGoogleSignIn
    \/ AuthResolveFail
    \/ AuthResolveOk
    \/ AuthRedirect
    \/ CallGetCurrentUser
    \/ MeResolve

SpecAuth == AuthInit /\ [][AuthNext]_vars

(***************************************************************************)
(* Onboarding conversation controller (app.js)                             *)
(*                                                                         *)
(* A text is a sequence of characters; a fixed literal of the code is a    *)
(* one-element sequence.                                                   *)
(***************************************************************************)
MaxStart == 2
MaxSend == 2

Val(v) == [null |-> FALSE, v |-> v]

Space == " "
Texts == {<<>>, <<Space>>, <<Space, "a", Space>>}
Welcome == <<"w">>
Reply == <<"r">>
SendErrorText == <<"Error: Could not send message. Please try again.">>
CreatingText == <<"Creating your profile...">>
FinalizeErrorText == <<"Something went wrong creating your profile.">>
UndefinedText == <<"undefined">>
SomeProfile == [user_id |-> "u1", city |-> "Milano"]

RECURSIVE TrimStart(_)
TrimStart(s) == IF s # <<>> /\ Head(s) = Space THEN TrimStart(Tail(s)) ELSE s
RECURSIVE TrimEnd(_)
TrimEnd(s) == IF s # <<>> /\ s[Len(s)] = Space THEN TrimEnd(SubSeq(s, 1, Len(s) - 1)) ELSE s
\* String.prototype.trim
trim(s) == TrimEnd(TrimStart(s))

ErrorBody == JsonText(JsonObj([detail |-> DetailMessage]))
StartResponses ==
    {NetworkFailure, Http(500, ErrorBody)}
    \cup {Http(200, JsonText(JsonObj([session_id |-> sid, message |-> Welcome]))) :
            sid \in {"s1", "s2"}}
MsgResponses ==
    {NetworkFailure, Http(500, NotJsonText), Http(500, ErrorBody)}
    \cup {Http(200, JsonText(JsonObj([message |-> Reply, is_complete |-> c]))) : c \in BOOLEAN}
FinResponses ==
    {NetworkFailure, Http(500, NotJsonText),
     Http(200, JsonText(JsonObj([success |-> FALSE]))),
     Http(200, JsonText(JsonObj([success |-> TRUE, profile |-> SomeProfile]))),
     Http(200, JsonText(JsonObj([success |-> TRUE, profile |-> SomeProfile,
                                 access_token |-> TokOnb])))}

\* `${text}` in a template literal
Str(p) == IF p.undef THEN UndefinedText ELSE p.value

\* addMessage: a new last child of chatContainer
addMessagePrepend(t, text, role) == <<[role |-> role, text |-> text]>> \o t

addMessage(t, text, role) == Append(t, [role |-> role, text |-> text])

\* the start request up to `const data = await response.json()`
startRequestNoOkCheck(resp) ==
    IF ~resp.net THEN Thrown(FetchErrorMessage)
    ELSE LET data == json(resp) IN
         IF data.threw THEN Thrown(JsonErrorMessage) ELSE data

startRequest(resp) ==
    IF ~resp.net THEN Thrown(FetchErrorMessage)
    ELSE IF ~resp.ok THEN Thrown("Failed to start session")
    ELSE LET data == json(resp) IN
         IF data.threw THEN Thrown(JsonErrorMessage) ELSE data

\* the message and finalize requests up to `const data = await response.json()`
exchange(resp) ==
    IF ~resp.net THEN Thrown(FetchErrorMessage)
    ELSE LET data == json(resp) IN
         IF data.threw THEN Thrown(JsonErrorMessage) ELSE data

\* a property of the parsed body as a condition
Flag(data, f) == LET p == Prop(data, f) IN ~p.undef /\ p.value = TRUE

setLoadingStuck(isLoading) == TRUE

\* setLoading(isLoading): sendBtn.disabled = isLoading
setLoading(isLoading) == isLoading

\* startForm submit: setLoading(true), then the request
SubmitStart ==
    /\ Idle
    /\ ~startModalHidden
    /\ nStart < MaxStart
    /\ nStart' = nStart + 1
    /\ sendDisabled' = setLoading(TRUE)
    /\ startReqs' = startReqs + 1
    /\ last' = [op |-> "startSubmit"]
    /\ UNCHANGED <<token, now, menuVars, path, href, lastRedirect, runVars, loginVars, sessionId,
                   profile, currentUser, transcript, msgReqs, finReqs, alerts,
                   startModalHidden, profileShown, nSend, nComplete, nFin>>

StartLast(resp, ok) ==
    [op |-> "startResolve", resp |-> resp, ok |-> ok, sidBefore |-> sessionId,
     transcriptBefore |-> transcript, alertsBefore |-> alerts]

\* the start request succeeded
StartResolveOk ==
    \E resp \in StartResponses :
        LET data == startRequest(resp) IN
        /\ Idle
        /\ startReqs > 0
        /\ ~data.threw
        /\ startReqs' = startReqs - 1
        /\ sessionId' = LET sid == Prop(data.value, "session_id")
                        IN IF sid.undef THEN Null ELSE Val(sid.value)
        /\ startModalHidden' = TRUE
        /\ transcript' = addMessage(transcript, Str(Prop(data.value, "message")), "assistant")
        /\ sendDisabled' = setLoading(FALSE)
        /\ last' = StartLast(resp, TRUE)
        /\ UNCHANGED <<token, now, menuVars, path, href, lastRedirect, runVars, loginVars, profile,
                       currentUser, msgReqs, finReqs, alerts, profileShown, nStart,
                       nSend, nComplete, nFin>>

\* the start request failed: alert, then setLoading(false)
StartResolveFail ==
    \E resp \in StartResponses :
        LET data == startRequest(resp) IN
        /\ Idle
        /\ startReqs > 0
        /\ data.threw
        /\ startReqs' = startReqs - 1
        /\ alerts' = Append(alerts, data.message)
        /\ sendDisabled' = setLoading(FALSE)
        /\ last' = StartLast(resp, FALSE)
        /\ UNCHANGED <<token, now, menuVars, path, href, lastRedirect, runVars, loginVars, sessionId,
                       profile, currentUser, transcript, msgReqs, finReqs,
                       startModalHidden, profileShown, nStart, nSend, nComplete, nFin>>

\* the condition of handleSendMessage's early return
sendGuardExclusive(text, sid) == trim(text) = <<>> \/ sid = Null \/ msgReqs # {}

sendGuard(text, sid) == trim(text) = <<>> \/ sid = Null

SendLast(text) ==
    [op |-> "handleSendMessage", text |-> text, sidBefore |-> sessionId,
     shownBefore |-> profileShown, transcriptBefore |-> transcript,
     reqsBefore |-> msgReqs]

\* handleSendMessage with messageInput.value = text, up to setLoading(true)
handleSendMessage(text) ==
    /\ Idle
    /\ nSend < MaxSend
    /\ last' = SendLast(text)
    /\ IF sendGuard(text, sessionId)
       THEN UNCHANGED <<transcript, sendDisabled, pc, cur>>
       ELSE /\ transcript' = addMessage(transcript, trim(text), "user")
            /\ sendDisabled' = setLoading(TRUE)
            /\ pc' = "sendFetch"
            /\ cur' = [op |-> "send", text |-> trim(text)]
    /\ UNCHANGED <<token, now, menuVars, path, href, lastRedirect, loginVars, sessionId, profile,
                   currentUser, startReqs, msgReqs, finReqs, alerts, startModalHidden,
                   profileShown, nStart, nSend, nComplete, nFin>>

\* sendBtn click: a disabled button does not click
ClickSend == ~sendDisabled /\ \E text \in Texts : handleSendMessage(text)

\* Enter in messageInput
EnterKey == \E text \in Texts : handleSendMessage(text)

\* ... the message request is issued
SendFetch ==
    /\ pc = "sendFetch"
    /\ nSend' = nSend + 1
    /\ msgReqs' = msgReqs \cup {[id |-> nSend + 1, session_id |-> sessionId,
                                 message |-> cur.text]}
    /\ pc' = "idle"
    /\ cur' = NoCur
    /\ last' = [op |-> "sendFetch", text |-> cur.text]
    /\ UNCHANGED <<token, now, menuVars, path, href, lastRedirect, loginVars, sessionId, profile,
                   currentUser, transcript, startReqs, finReqs, alerts, sendDisabled,
                   startModalHidden, profileShown, nStart, nComplete, nFin>>

\* the catch block of handleSendMessage
sendFailureSilent(t) == t

sendFailure(t) == addMessage(t, SendErrorText, "assistant")

MsgResolveFailRetry ==
    \E r \in msgReqs, resp \in MsgResponses :
        LET data == exchange(resp) IN
        /\ Idle
        /\ data.threw
        /\ nSend < MaxSend
        /\ nSend' = nSend + 1
        /\ msgReqs' = (msgReqs \ {r}) \cup {[id |-> nSend + 1, session_id |-> r.session_id,
                                               message |-> r.message]}
        /\ transcript' = sendFailure(transcript)
        /\ sendDisabled' = setLoading(FALSE)
        /\ last' = [op |-> "msgFailed", req |-> r, sidBefore |-> sessionId,
                    shownBefore |-> profileShown, transcriptBefore |-> transcript,
                    finBefore |-> finReqs]
        /\ UNCHANGED <<token, now, menuVars, path, href, lastRedirect, runVars, loginVars, sessionId,
                       profile, currentUser, startReqs, finReqs, alerts,
                       startModalHidden, profileShown, nStart, nComplete, nFin>>

\* the exchange failed: the inline error, then setLoading(false)
MsgResolveFail ==
    \E r \in msgReqs, resp \in MsgResponses :
        LET data == exchange(resp) IN
        /\ Idle
        /\ data.threw
        /\ msgReqs' = msgReqs \ {r}
        /\ transcript' = sendFailure(transcript)
        /\ sendDisabled' = setLoading(FALSE)
        /\ last' = [op |-> "msgFailed", req |-> r, sidBefore |-> sessionId,
                    shownBefore |-> profileShown, transcriptBefore |-> transcript,
                    finBefore |-> finReqs]
        /\ UNCHANGED <<token, now, menuVars, path, href, lastRedirect, runVars, loginVars, sessionId,
                       profile, currentUser, startReqs, finReqs, alerts,
                       startModalHidden, profileShown, nStart, nSend, nComplete, nFin>>

\* whether the reply makes handleSendMessage call finalizeProfile
triggersFinalizeAlways(data) == TRUE

triggersFinalize(data) == Flag(data, "is_complete")

\* the reply arrived: addMessage(data.message); without is_complete, setLoading(false)
MsgReply ==
    \E r \in msgReqs, resp \in MsgResponses :
        LET data == exchange(resp) IN
        /\ Idle
        /\ ~data.threw
        /\ msgReqs' = msgReqs \ {r}
        /\ transcript' = addMessage(transcript, Str(Prop(data.value, "message")), "assistant")
        /\ last' = [op |-> "msgReply", req |-> r, complete |-> Flag(data.value, "is_complete"),
                    finBefore |-> finReqs, transcriptBefore |-> transcript]
        /\ nComplete' = IF Flag(data.value, "is_complete") THEN nComplete + 1 ELSE nComplete
        /\ IF triggersFinalize(data.value)
           THEN /\ pc' = "finalizeBegin"
                /\ cur' = [op |-> "msg", req |-> r,
                           reply |-> Str(Prop(data.value, "message")), finBefore |-> finReqs]
                /\ UNCHANGED sendDisabled
           ELSE /\ sendDisabled' = setLoading(FALSE)
                /\ UNCHANGED <<pc, cur>>
        /\ UNCHANGED <<token, now, menuVars, path, href, lastRedirect, loginVars, sessionId, profile,
                       currentUser, startReqs, finReqs, alerts, startModalHidden,
                       profileShown, nStart, nSend, nFin>>

\* finalizeProfile: addMessage("Creating your profile...") ...
FinalizeBegin ==
    /\ pc = "finalizeBegin"
    /\ transcript' = addMessage(transcript, CreatingText, "assistant")
    /\ pc' = "finalizeFetch"
    /\ last' = [op |-> "finalizeBegin"]
    /\ UNCHANGED <<token, now, menuVars, path, href, lastRedirect, cur, loginVars, sessionId, profile,
                   currentUser, startReqs, msgReqs, finReqs, alerts, sendDisabled,
                   startModalHidden, profileShown, nStart, nSend, nComplete, nFin>>

finalizeUserIdSession(user, sid) == sid

\* const userId = currentUser ? currentUser.user_id : sessionId
finalizeUserId(user, sid) == IF user # Null THEN Val(user.user_id) ELSE sid

\* ... the finalize request is issued, with the stored credential as bearer
FinalizeFetch ==
    /\ pc = "finalizeFetch"
    /\ nFin' = nFin + 1
    /\ finReqs' = finReqs \cup {[id |-> nFin + 1, session_id |-> sessionId,
                                 user_id |-> finalizeUserId(currentUser, sessionId),
                                 bearer |-> getToken(token)]}
    /\ pc' = "idle"
    /\ cur' = NoCur
    /\ last' = [op |-> "finalizeFetch", req |-> cur.req, reply |-> cur.reply,
                finBefore |-> cur.finBefore]
    /\ UNCHANGED <<token, now, menuVars, path, href, lastRedirect, loginVars, sessionId, profile,
                   currentUser, transcript, startReqs, msgReqs, alerts, sendDisabled,
                   startModalHidden, profileShown, nStart, nSend, nComplete>>

FinLast(resp, data) ==
    [op |-> "finalizeResolve", threw |-> data.threw,
     success |-> ~data.threw /\ Flag(data.value, "success"),
     access_token |-> IF ~data.threw /\ ~Prop(data.value, "access_token").undef
                      THEN Prop(data.value, "access_token").value ELSE Absent,
     shownBefore |-> profileShown, tokenBefore |-> token, transcriptBefore |-> transcript]

\* the finalize response: profile, setToken, showProfileModal; or the inline error.
\* handleSendMessage then ends with setLoading(false)
FinResolve ==
    \E r \in finReqs, resp \in FinResponses :
        LET data == exchange(resp) IN
        /\ Idle
        /\ finReqs' = finReqs \ {r}
        /\ last' = FinLast(resp, data)
        /\ sendDisabled' = setLoading(FALSE)
        /\ IF data.threw
           THEN /\ transcript' = addMessage(transcript, FinalizeErrorText, "assistant")
                /\ UNCHANGED <<profile, token, profileShown>>
           ELSE IF Flag(data.value, "success")
           THEN /\ profile' = LET pr == Prop(data.value, "profile")
                              IN IF pr.undef THEN Null ELSE Val(pr.value)
                /\ token' = LET at == Prop(data.value, "access_token")
                            IN IF at.undef THEN token ELSE setToken(at.value)
                /\ profileShown' = TRUE
                /\ UNCHANGED transcript
           ELSE UNCHANGED <<profile, token, profileShown, transcript>>
        /\ UNCHANGED <<now, menuVars, path, href, lastRedirect, runVars, loginVars, sessionId,
                       currentUser, startReqs, msgReqs, alerts, startModalHidden, nStart,
                       nSend, nComplete, nFin>>

\* the 'View My Menu' link of the profile modal: the onboarding document is left (its
\* script runs no more) and the menu page is loaded
FollowViewMenuLink ==
    /\ Idle
    /\ profileShown
    /\ pc' = "unloaded"
    /\ path' = MenuPath
    /\ href' = Assign(menuPageLoad(TRUE, token, now).to, MenuPath)
    /\ last' = [op |-> "viewMenu", tok |-> token, at |-> now]
    /\ UNCHANGED <<token, now, menuVars, lastRedirect, cur, loginVars, onbVars>>

OnboardInit ==
    /\ token = TokNew
    /\ now = ExpEarly * MsPerSec
    /\ path = RootPath
    /\ href = Assign(checkAuth(TRUE, token, now).to, path)
    /\ last = NoCall
    /\ lastRedirect = NoRedirect
    /\ RunInit /\ LoginInit /\ MenuIdle
    /\ sessionId = Null
    /\ profile = Null
    /\ currentUser = checkAuth(TRUE, token, now).user
    /\ transcript = <<>>
    /\ startReqs = 0
    /\ msgReqs = {}
    /\ finReqs = {}
    /\ alerts = <<>>
    /\ sendDisabled = FALSE
    /\ startModalHidden = FALSE
    /\ profileShown = FALSE
    /\ nStart = 0
    /\ nSend = 0
    /\ nComplete = 0
    /\ nFin = 0

OnboardNext ==
    \/ SubmitStart
    \/ StartResolveOk
    \/ StartResolveFail
    \/ ClickSend
    \/ EnterKey
    \/ SendFetch
    \/ MsgResolveFail
    \/ MsgReply
    \/ FinalizeBegin
    \/ FinalizeFetch
    \/ FinResolve
    \/ FollowViewMenuLink

SpecOnboard == OnboardInit /\ [][OnboardNext]_vars

(***************************************************************************)
(* Menu viewer (menu.js)                                                   *)
(*                                                                         *)
(* A menu is a function from the weekday keys it has to daily menus; a     *)
(* daily menu is a function from the meal keys it has to a dish or null.   *)
(***************************************************************************)
MaxSlots == 2

NotFound == 404

days == <<"monday", "tuesday", "wednesday", "thursday", "friday", "saturday", "sunday">>

MealTypesLunchFirst == <<"lunch", "breakfast", "dinner">>

MealTypes == <<"breakfast", "lunch", "dinner">>

Porridge == [name |-> <<"P", "i">>, description |-> <<"h", "o", "t">>,
             ingredients |-> << <<"W", "h", "e">>, <<"e", "g">> >>,
             preparation_steps |-> << <<"m", "i", "x">> >>]
Wok == [name |-> <<"w", "o", "k">>, description |-> <<"P", "a">>,
        ingredients |-> <<>>, preparation_steps |-> <<>>]
SlotValues == {Porridge, Wok, Null}
Terms == {<<>>, <<"w">>, <<"H", "E">>, <<"p">>, <<"o">>, <<"z">>, <<"g">>,
          <<"w", "h", "e", "a">>}
WeekStart == "2026-01-05"

Range(s) == {s[i] : i \in DOMAIN s}
Slots == Range(days) \X Range(MealTypes)
RECURSIVE SlotSets(_)
SlotSets(k) ==
    IF k = 0 THEN {{}}
    ELSE LET smaller == SlotSets(k - 1)
         IN smaller \cup {S \cup {x} : S \in smaller, x \in Slots}
MenuOf(a) ==
    [d \in {x[1] : x \in DOMAIN a} |->
        [m \in {x[2] : x \in {y \in DOMAIN a : y[1] = d}} |-> a[<<d, m>>]]]
Menus == {MenuOf(a) : a \in UNION {[S -> SlotValues] : S \in SlotSets(MaxSlots)}}

MenuResponses ==
    {NetworkFailure, Http(NotFound, ErrorBody), Http(500, ErrorBody), Http(200, NotJsonText)}
    \cup {Http(200, JsonText(JsonObj([menu |-> m, week_start_date |-> WeekStart]))) :
            m \in Menus}

\* { day: day, type: mealType, ...dish }: the fields of the second win
Spread(base, dish) ==
    [f \in DOMAIN base \cup DOMAIN dish |-> IF f \in DOMAIN dish THEN dish[f] ELSE base[f]]

\* the inner forEach of processMenuData, from the i-th meal type on
RECURSIVE dishesOfDay(_, _, _)
dishesOfDay(day, dailyMenu, i) ==
    IF i > Len(MealTypes) THEN <<>>
    ELSE LET mealType == MealTypes[i]
             found == IF Has(dailyMenu, mealType) /\ dailyMenu[mealType] # Null
                      THEN <<Spread([day |-> day, type |-> mealType], dailyMenu[mealType])>>
                      ELSE <<>>
         IN found \o dishesOfDay(day, dailyMenu, i + 1)

\* the outer forEach of processMenuData, from the i-th day on
RECURSIVE dishesFrom(_, _)
dishesFrom(menu, i) ==
    IF i > Len(days) THEN <<>>
    ELSE LET day == days[i]
             found == IF Has(menu, day) THEN dishesOfDay(day, menu[day], 1) ELSE <<>>
         IN found \o dishesFrom(menu, i + 1)

\* processMenuData: the new value of allDishes
processMenuData(menu) == dishesFrom(menu, 1)

\* String.prototype.toLowerCase
UpperCase == <<"P", "W", "H", "E">>
LowerCase == <<"p", "w", "h", "e">>
toLowerCaseIdentity(s) == s

toLowerCase(s) ==
    [i \in DOMAIN s |->
        IF \E j \in DOMAIN UpperCase : UpperCase[j] = s[i]
        THEN LowerCase[CHOOSE j \in DOMAIN UpperCase : UpperCase[j] = s[i]]
        ELSE s[i]]

\* String.prototype.includes
includes(s, t) == \E i \in 0..(Len(s) - Len(t)) : SubSeq(s, i + 1, i + Len(t)) = t

\* the predicate of the search handler's filter, term already in lower case
matches(dish, term) ==
    \/ includes(toLowerCase(dish.name), term)
    \/ includes(toLowerCase(dish.description), term)
    \/ \E k \in DOMAIN dish.ingredients : includes(toLowerCase(dish.ingredients[k]), term)

\* Array.prototype.filter with that predicate
RECURSIVE filter(_, _)
filter(dishes, term) ==
    IF dishes = <<>> THEN <<>>
    ELSE (IF matches(Head(dishes), term) THEN <<Head(dishes)>> ELSE <<>>)
         \o filter(Tail(dishes), term)

\* renderDishes: the empty message, or one card per dish
renderDishes(dishes) ==
    IF Len(dishes) = 0 THEN View("empty-msg", <<>>, "No dishes found matching your search.")
    ELSE View("dish-cards", dishes, "")

renderEmptyState == View("empty-state", <<>>, "No Menu Yet")

errorView(message) == View("error-msg", <<>>, message)

\* response.status === 404
isNoMenuNever(resp) == FALSE

isNoMenu(resp) == resp.status = NotFound

FetchLast(resp) ==
    [op |-> "fetchMenu", resp |-> resp, menuBefore |-> currentMenu,
     dishesBefore |-> allDishes, weekBefore |-> weekDate]

\* fetchMenu from the response on
FetchMenuResolve ==
    /\ fetchState = "pending"
    /\ \E resp \in MenuResponses :
        /\ last' = FetchLast(resp)
        /\ IF ~resp.net
           THEN /\ dishGrid' = errorView(FetchErrorMessage)
                /\ fetchState' = "failed"
                /\ UNCHANGED <<currentMenu, allDishes, weekDate>>
           ELSE IF ~resp.ok /\ isNoMenu(resp)
           THEN /\ dishGrid' = renderEmptyState
                /\ weekDate' = <<>>
                /\ fetchState' = "noMenu"
                /\ UNCHANGED <<currentMenu, allDishes>>
           ELSE IF ~resp.ok
           THEN /\ dishGrid' = errorView("Failed to fetch menu")
                /\ fetchState' = "failed"
                /\ UNCHANGED <<currentMenu, allDishes, weekDate>>
           ELSE LET data == json(resp) IN
                IF data.threw
                THEN /\ dishGrid' = errorView(JsonErrorMessage)
                     /\ fetchState' = "failed"
                     /\ UNCHANGED <<currentMenu, allDishes, weekDate>>
                ELSE /\ currentMenu' = Val(Prop(data.value, "menu").value)
                     /\ weekDate' = <<"Week of ", Prop(data.value, "week_start_date").value>>
                     /\ allDishes' = processMenuData(Prop(data.value, "menu").value)
                     /\ dishGrid' = renderDishes(allDishes')
                     /\ fetchState' = "loaded"
        /\ UNCHANGED <<token, now, path, href, lastRedirect, runVars, loginVars, onbVars>>

\* the input listener of dishSearch, with e.target.value = value
SearchInput ==
    \E value \in Terms :
        LET term == toLowerCase(value)
            filtered == filter(allDishes, term)
        IN /\ dishGrid' = renderDishes(filtered)
           /\ last' = [op |-> "search", value |-> value, dishesBefore |-> allDishes,
                       fetchBefore |-> fetchState]
           /\ UNCHANGED <<token, now, path, href, lastRedirect, runVars, loginVars, onbVars,
                          currentMenu, allDishes, weekDate, fetchState>>

\* DOMContentLoaded of the menu page: whether fetchMenu is called
menuFetchStart(store, t) ==
    IF menuPageLoad(TRUE, store, t).fetch # None THEN "pending" ELSE "none"

\* the menu page is loaded again: a new document, a new script, a new fetchMenu
ReloadMenuPage ==
    /\ fetchState # "pending"
    /\ currentMenu' = Null
    /\ allDishes' = <<>>
    /\ weekDate' = InitialLabel
    /\ dishGrid' = Markup
    /\ fetchState' = menuFetchStart(token, now)
    /\ last' = [op |-> "reload"]
    /\ UNCHANGED <<token, now, path, href, lastRedirect, runVars, loginVars, onbVars>>

MenuInit ==
    /\ token = TokOnb
    /\ now = ExpEarly * MsPerSec
    /\ path = MenuPath
    /\ href = Assign(menuPageLoad(TRUE, token, now).to, path)
    /\ last = NoCall
    /\ lastRedirect = NoRedirect
    /\ RunInit /\ LoginInit /\ OnbInit
    /\ currentMenu = Null
    /\ allDishes = <<>>
    /\ weekDate = InitialLabel
    /\ dishGrid = Markup
    /\ fetchState = menuFetchStart(token, now)

MenuNext ==
    \/ FetchMenuResolve
    \/ SearchInput
    \/ ReloadMenuPage

SpecMenu == MenuInit /\ [][MenuNext]_vars

(***************************************************************************)
(* The site: any one of the pages, and logout                              *)
(***************************************************************************)
logoutKeepsCredential(store) == [store |-> store, href |-> LoginPath]

\* logout(): clearToken(); window.location.href = '/login.html'
logout(store) == [store |-> clearToken, href |-> LoginPath]

CallLogout ==
    /\ token' = logout(token).store
    /\ href' = logout(token).href
    /\ last' = [op |-> "logout", tok |-> token, at |-> now]
    /\ UNCHANGED <<now, menuVars, path, lastRedirect, runVars, loginVars, onbVars>>

\* the operations of each page, as recorded in last.op
NavOps == {"isAuthenticated", "getUserFromToken", "redirectBasedOnStatus",
           "checkAuthAndRedirect", "load", "loadMenuByUserId", "logout"}
AuthOps == {"toggle", "authSubmit", "authFailed", "authStored", "authRedirect",
            "getCurrentUser"}
OnboardOps == {"startSubmit", "startResolve", "handleSendMessage", "sendFetch", "msgFailed",
               "msgReply", "finalizeBegin", "finalizeFetch", "finalizeResolve", "viewMenu"}
MenuOps == {"fetchMenu", "search", "reload"}

\* any page and any stored value, at the earlier expiry
AnyPageInit == NavInit /\ now = ExpEarly * MsPerSec

\* the page whose script is running: the one the run began on
On(start, ops) == (last.op = "none" /\ start) \/ last.op \in ops
OnAny == On(AnyPageInit, NavOps)
OnLogin == On(AuthInit, AuthOps)
OnOnboarding == On(OnboardInit, OnboardOps)
OnMenu == On(MenuInit, MenuOps)

\* start submissions and messages of one onboarding page followed within the site
MaxSiteStart == 1
MaxSiteSend == 2

SiteInit == AnyPageInit \/ AuthInit \/ OnboardInit \/ MenuInit

SiteNext ==
    \/ OnAny /\ CallIsAuthenticated
    \/ OnAny /\ CallGetUserFromToken
    \/ OnAny /\ \E user \in Users : CallRedirectBasedOnStatus(user)
    \/ OnAny /\ CallCheckAuthAndRedirect
    \/ OnAny /\ OpenPage
    \/ OnAny /\ FollowRedirect
    \/ OnAny /\ LoadMenuPageByUserId
    \/ OnAny /\ CallLogout
    \/ OnLogin /\ ToggleMode
    \/ OnLogin /\ SubmitAuthForm
    \/ OnLogin /\ handleGoogleSignIn
    \/ OnLogin /\ AuthResolveFail
    \/ OnLogin /\ AuthResolveOk
    \/ OnLogin /\ AuthRedirect
    \/ OnLogin /\ CallGetCurrentUser
    \/ OnLogin /\ MeResolve
    \/ OnOnboarding /\ nStart < MaxSiteStart /\ SubmitStart
    \/ OnOnboarding /\ StartResolveOk
    \/ OnOnboarding /\ StartResolveFail
    \/ OnOnboarding /\ nSend < MaxSiteSend /\ ClickSend
    \/ OnOnboarding /\ nSend < MaxSiteSend /\ EnterKey
    \/ OnOnboarding /\ SendFetch
    \/ OnOnboarding /\ MsgResolveFail
    \/ OnOnboarding /\ MsgReply
    \/ OnOnboarding /\ FinalizeBegin
    \/ OnOnboarding /\ FinalizeFetch
    \/ OnOnboarding /\ FinResolve
    \/ OnOnboarding /\ FollowViewMenuLink
    \/ OnMenu /\ FetchMenuResolve
    \/ OnMenu /\ SearchInput
    \/ OnMenu /\ ReloadMenuPage

SpecSite == SiteInit /\ [][SiteNext]_vars

(***************************************************************************)
(* Vocabulary of the properties                                            *)
(***************************************************************************)
Decodes(t) == t # Absent /\ ~parseJwt(t).threw
HasExpiry(t) == Decodes(t) /\ parseJwt(t).value.k = "obj" /\ Has(parseJwt(t).value.f, "exp")
ExpiryOf(t) == parseJwt(t).value.f.exp
Expired(t, at) == HasExpiry(t) /\ ExpiryOf(t) * MsPerSec <= at

(***************************************************************************)
(* Navigation guard and session inspector: properties under SpecNav        *)
(***************************************************************************)
\* C1: redirectBasedOnStatus(user) follows the redirect table: no user and not on the
\* login page -> login page; user not onboarded and on neither '/' nor the index page
\* -> '/'; user onboarded and on the login page, '/' or the index page -> menu page;
\* in every other case the location is left as it was.
C1_RedirectTable ==
    last.op = "redirectBasedOnStatus" =>
        LET u == last.user
            p == last.path
        IN /\ path = p
           /\ IF u = Null /\ p # LoginPath THEN href = LoginPath
              ELSE IF u # Null /\ ~u.is_onboarded /\ p \notin {RootPath, IndexPath}
                   THEN href = RootPath
              ELSE IF u # Null /\ u.is_onboarded /\ p \in {LoginPath, RootPath, IndexPath}
                   THEN href = MenuPath
              ELSE href = last.before

C1_Witness ==
    /\ last.op = "redirectBasedOnStatus"
    /\ last.user # Null /\ ~last.user.is_onboarded
    /\ last.path = IndexPath /\ last.before = IndexPath /\ href = IndexPath

\* C2: isAuthenticated() is true iff a credential is stored, its payload decodes, the
\* payload has an exp, and exp (seconds) is strictly later than the current time.
C2_IsAuthenticatedIff ==
    last.op = "isAuthenticated" =>
        (last.ret <=> /\ last.tok # Absent
                      /\ Decodes(last.tok)
                      /\ HasExpiry(last.tok)
                      /\ ExpiryOf(last.tok) * MsPerSec > last.at)

C2_Witness ==
    /\ last.op = "isAuthenticated"
    /\ HasExpiry(last.tok)
    /\ ExpiryOf(last.tok) * MsPerSec = last.at
    /\ last.ret = FALSE

\* C3: with an expired credential stored, isAuthenticated, the page-load checks of the
\* login, onboarding and menu pages, and checkAuthAndRedirect all decide exactly as
\* they do with no credential stored.
C3_PageChecksExpiredAsAbsent ==
    /\ (last.op = "isAuthenticated" /\ Expired(last.tok, last.at))
          => last.ret = isAuthenticated(Absent, last.at)
    /\ (last.op = "load" /\ Expired(last.tok, last.at))
          => href = Assign(PageGuard(last.page, last.loaded, Absent, last.at), last.page)

C3_ExpiredAsAbsent ==
    /\ C3_PageChecksExpiredAsAbsent
    /\ (last.op = "checkAuthAndRedirect" /\ Expired(last.tok, last.at))
          => href = Assign(checkAuthAndRedirect(Absent, last.path), last.before)

\* C4: the redirect decision is idempotent: when redirectBasedOnStatus produced a
\* redirect and is invoked again with the same session on the landing path, it
\* produces no redirect.
C4_Idempotent ==
    (/\ last.op = "redirectBasedOnStatus"
     /\ last.prior.target # None
     /\ last.prior.user = last.user
     /\ last.path = last.prior.target)
        => lastRedirect.target = None /\ href = last.before

C4_Witness ==
    /\ last.op = "redirectBasedOnStatus"
    /\ last.prior.target = MenuPath
    /\ last.prior.user = last.user
    /\ last.path = MenuPath
    /\ lastRedirect.target = None

(***************************************************************************)
(* Auth gateway and login page: properties under SpecAuth                  *)
(***************************************************************************)
\* C5: after a successful signup, login or Google sign-in the stored credential is the
\* response's access_token, stored before the redirect is issued; the redirect goes to
\* the menu page iff the response's is_onboarded is true, otherwise to '/'.
C5_StoreThenRedirect ==
    /\ pc = "authRedirect" => (token = cur.data.access_token /\ href = cur.before)
    /\ last.op = "authRedirect" =>
          /\ token = last.data.access_token
          /\ (href = MenuPath <=> last.data.is_onboarded)
          /\ (~last.data.is_onboarded => href = RootPath)

C5_Witness ==
    /\ last.op = "authRedirect"
    /\ last.kind = "google"
    /\ last.data.is_onboarded
    /\ last.before = LoginPath
    /\ href = MenuPath

HasDetail(resp) == ~json(resp).threw /\ ~Prop(json(resp).value, "detail").undef
Fallback(kind) ==
    IF kind = "signup" THEN "Signup failed"
    ELSE IF kind = "login" THEN "Login failed"
    ELSE "Google authentication failed"

C6_Contract ==
    /\ last.message = IF HasDetail(last.resp)
                      THEN Prop(json(last.resp).value, "detail").value
                      ELSE Fallback(last.kind)
    /\ errorMessage = last.message
    /\ href = last.hrefBefore
    /\ token = last.tokenBefore

\* C6: a non-success HTTP status makes signup, login or googleAuth fail with the
\* backend's detail message if present, otherwise with the fixed fallback of the
\* operation; the login page shows that message, issues no redirect and stores nothing.
C6_FailureContract ==
    (last.op = "authFailed" /\ last.resp.net /\ ~last.resp.ok) => C6_Contract

\* the same for the error responses whose body is JSON
C6_JsonBodyFailureContract ==
    (last.op = "authFailed" /\ last.resp.net /\ ~last.resp.ok /\ ~json(last.resp).threw)
        => C6_Contract

\* C7: getCurrentUser() without a stored credential returns absent and issues no
\* request; on 401 it clears the credential and returns absent without an error; on
\* any other non-OK status it raises 'Failed to get user info' and leaves the
\* credential; on success it returns the user object and leaves the credential.
C7_GetCurrentUser ==
    last.op = "getCurrentUser" =>
        /\ (last.phase = "call" /\ last.tokenBefore = Absent) =>
              /\ meReqs = last.reqsBefore
              /\ ~last.threw /\ last.value = Null
              /\ token = last.tokenBefore
        /\ (last.phase = "response" /\ last.resp.net /\ last.resp.status = Unauthorized) =>
              /\ token = Absent
              /\ ~last.out.threw /\ last.out.value = Null
        /\ (last.phase = "response" /\ last.resp.net /\ ~last.resp.ok
                /\ last.resp.status # Unauthorized) =>
              /\ last.out.threw /\ last.out.message = "Failed to get user info"
              /\ token = last.tokenBefore
        /\ (last.phase = "response" /\ last.resp.net /\ last.resp.ok) =>
              /\ ~last.out.threw /\ last.out.value = UserBody.v
              /\ token = last.tokenBefore

C7_Witness ==
    /\ last.op = "getCurrentUser"
    /\ last.phase = "response"
    /\ last.resp.net /\ last.resp.status = Unauthorized
    /\ last.tokenBefore # Absent
    /\ token = Absent

(***************************************************************************)
(* Onboarding conversation controller: properties under SpecOnboard        *)
(***************************************************************************)
NotStarted == sessionId = Null
Completed == profileShown
Active == sessionId # Null /\ ~profileShown

\* C8: on a successful start response the controller goes from NotStarted to Active,
\* the session id becomes the response's and the opening message is appended to the
\* transcript; on a failed request or a non-OK response the session id and the
\* transcript stay as they were (NotStarted stays NotStarted) and an alert is raised.
C8_Start ==
    last.op = "startResolve" =>
        /\ (last.resp.net /\ last.resp.ok /\ ~json(last.resp).threw) =>
              /\ sessionId = Val(json(last.resp).value.f.session_id)
              /\ transcript = Append(last.transcriptBefore,
                                     [role |-> "assistant",
                                      text |-> json(last.resp).value.f.message])
              /\ alerts = last.alertsBefore
              /\ (last.sidBefore = Null => Active)
        /\ (~last.resp.net \/ ~last.resp.ok) =>
              /\ sessionId = last.sidBefore
              /\ transcript = last.transcriptBefore
              /\ Len(alerts) = Len(last.alertsBefore) + 1
              /\ (last.sidBefore = Null => NotStarted)

C8_Witness ==
    /\ last.op = "startResolve"
    /\ last.resp.net /\ last.resp.ok /\ ~json(last.resp).threw
    /\ last.sidBefore = Null
    /\ sessionId = Val("s1")
    /\ transcript = <<[role |-> "assistant", text |-> Welcome]>>
    /\ Active

\* no message request carries an unset session id, and without a session id or with
\* blank text handleSendMessage does nothing
C9_SendOnlyWithSession ==
    /\ \A r \in msgReqs : r.session_id # Null
    /\ (last.op = "handleSendMessage" /\ (last.sidBefore = Null \/ trim(last.text) = <<>>))
          => (transcript = last.transcriptBefore /\ msgReqs = last.reqsBefore /\ pc = "idle")

\* C9: sendMessage has an effect only in the Active state with non-blank text: in
\* NotStarted, in Completed, or with empty or whitespace-only text it appends nothing
\* and issues no message request; no message request is issued with the session id unset.
C9_SendOnlyWhenActive ==
    /\ C9_SendOnlyWithSession
    /\ (last.op = "handleSendMessage" /\ last.shownBefore)
          => (transcript = last.transcriptBefore /\ msgReqs = last.reqsBefore /\ pc = "idle")

InFinalize == pc \in {"finalizeBegin", "finalizeFetch"}

C10_FinalizeOnce ==
    /\ pc = "finalizeBegin" =>
          /\ transcript[Len(transcript)] = [role |-> "assistant", text |-> cur.reply]
          /\ finReqs = cur.finBefore
    /\ pc = "finalizeFetch" =>
          /\ transcript[Len(transcript) - 1] = [role |-> "assistant", text |-> cur.reply]
          /\ finReqs = cur.finBefore
    /\ last.op = "finalizeFetch" =>
          \E q \in finReqs : q \notin last.finBefore /\ finReqs = last.finBefore \cup {q}
    /\ last.op = "msgReply" =>
          IF last.complete THEN pc = "finalizeBegin"
          ELSE pc = "idle" /\ finReqs = last.finBefore
    /\ nFin = IF InFinalize THEN nComplete - 1 ELSE nComplete

\* C10 as stated: a reply with is_complete true triggers finalize exactly once, after
\* the reply has been appended, and the controller then transitions to Completed; a
\* reply with is_complete false triggers no finalize request.
C10_FinalizeOnceThenCompleted ==
    /\ C10_FinalizeOnce
    /\ last.op = "finalizeResolve" => Completed

\* C10 amended: a reply with is_complete true triggers finalize exactly once, after the
\* reply has been appended; when the finalize response reports success the controller
\* transitions to Completed, otherwise it stays as it was; a reply with is_complete
\* false triggers no finalize request.
C10_FinalizeOnceCompletedOnSuccess ==
    /\ C10_FinalizeOnce
    /\ last.op = "finalizeResolve" =>
          IF last.success THEN Completed ELSE profileShown = last.shownBefore

C10_Witness ==
    /\ last.op = "finalizeResolve"
    /\ last.success
    /\ ~last.shownBefore
    /\ Completed
    /\ nComplete = 1 /\ nFin = 1

FinalizeError == [role |-> "assistant", text |-> FinalizeErrorText]

C11_OnSuccess ==
    /\ token = IF last.access_token # Absent THEN last.access_token ELSE last.tokenBefore
    /\ profileShown
    /\ profile = Val(SomeProfile)

C11_OnFailure ==
    /\ transcript = Append(last.transcriptBefore, FinalizeError)
    /\ profileShown = last.shownBefore
    /\ (~last.shownBefore => Active)
    /\ token = last.tokenBefore

\* C11: finalize: on success the stored credential becomes the response's access_token
\* when one is provided (else it is unchanged) and the profile is presented; on every
\* failure (transport failure or a response that does not report success) the inline
\* error is appended to the transcript, the controller remains Active, the profile is
\* not presented and the stored credential is unchanged.
C11_FinalizeOutcome ==
    last.op = "finalizeResolve" =>
        IF last.success THEN C11_OnSuccess ELSE C11_OnFailure

\* the same except for a parsed response that does not report success: there nothing
\* is appended to the transcript
C11_FinalizeOutcomeSilentOnNoSuccess ==
    last.op = "finalizeResolve" =>
        IF last.success THEN C11_OnSuccess
        ELSE IF last.threw THEN C11_OnFailure
        ELSE /\ transcript = last.transcriptBefore
             /\ profileShown = last.shownBefore
             /\ token = last.tokenBefore

SendError == [role |-> "assistant", text |-> SendErrorText]
AfterSendError(t) == \E i \in DOMAIN t : t[i] = SendError

UserEntries(t) == {i \in DOMAIN t : t[i].role = "user"}
NthUser(t, k) == CHOOSE i \in UserEntries(t) : Cardinality({j \in UserEntries(t) : j <= i}) = k
IsPrefix(s, t) == Len(s) <= Len(t) /\ SubSeq(t, 1, Len(s)) = s

\* the k-th accepted send is the k-th entry of the user and the request with id k
C13_Order ==
    /\ pc = "sendFetch" =>
          /\ transcript[Len(transcript)] = [role |-> "user", text |-> cur.text]
          /\ Cardinality(UserEntries(transcript)) = nSend + 1
          /\ \A r \in msgReqs : r.id <= nSend
    /\ pc # "sendFetch" => Cardinality(UserEntries(transcript)) = nSend
    /\ \A r \in msgReqs :
          /\ r.id <= Cardinality(UserEntries(transcript))
          /\ transcript[NthUser(transcript, r.id)].text = r.message
    /\ last.op \in {"msgReply", "msgFailed"} =>
          /\ Len(transcript) = Len(last.transcriptBefore) + 1
          /\ IsPrefix(last.transcriptBefore, transcript)
          /\ transcript[Len(transcript)].role = "assistant"
          /\ last.req.id <= Cardinality(UserEntries(last.transcriptBefore))
          /\ last.transcriptBefore[NthUser(last.transcriptBefore, last.req.id)].text
                = last.req.message
          /\ NthUser(transcript, last.req.id) < Len(transcript)

C13_AppendOnly == IsPrefix(transcript, transcript')

\* C13: the user's message of an exchange is appended to the transcript before the
\* exchange's request is issued, the reply or the inline error of the same exchange is
\* appended after it, and transcript entries are only ever appended, never removed or
\* reordered.
C13_TranscriptOrder == []C13_Order /\ [][C13_AppendOnly]_vars

C13_Witness ==
    /\ last.op = "msgReply"
    /\ last.req.id = 2
    /\ NthUser(transcript, 2) < Len(transcript)
    /\ Cardinality(UserEntries(transcript)) = 2

Accepted ==
    /\ pc = "sendFetch"
    /\ transcript = Append(last.transcriptBefore, [role |-> "user", text |-> trim(last.text)])

\* C14: no mutual-exclusion guard prevents a second sendMessage while one is in
\* flight: an accepted send disables the send button, yet handleSendMessage with a
\* session id and non-blank text is accepted whatever requests are pending, so two
\* message requests of one session can be pending together and their replies can be
\* appended in another order than the sends.
C14_NoMutualExclusion ==
    /\ (/\ last.op = "handleSendMessage"
        /\ last.sidBefore # Null
        /\ trim(last.text) # <<>>) => (Accepted /\ sendDisabled)
    /\ last.op = "sendFetch" => (sendDisabled /\ msgReqs # {})

\* the reply of the second request is appended while the first, of the same session,
\* is still pending
C14_Witness ==
    /\ last.op = "msgReply"
    /\ last.req.id = 2
    /\ \E r \in msgReqs : r.id = 1 /\ r.session_id = last.req.session_id
    /\ transcript[Len(transcript)] = [role |-> "assistant", text |-> Reply]
    /\ NthUser(transcript, 2) = Len(transcript) - 1

(***************************************************************************)
(* Menu viewer: properties under SpecMenu                                  *)
(***************************************************************************)
BodyMenu(resp) == json(resp).value.f.menu

\* C15: fetchMenu by status: a 404 ends in the 'no menu yet' empty state with the week
\* label cleared, no error view and an empty dish list; any other non-OK status or a
\* transport failure ends in the inline error view; only a success response sets the
\* current menu, the week label and the flattened dish list.
C15_FetchMenuOutcome ==
    last.op = "fetchMenu" =>
        LET r == last.resp IN
        /\ (r.net /\ r.status = NotFound) =>
              /\ dishGrid.kind = "empty-state"
              /\ weekDate = <<>>
              /\ allDishes = <<>>
              /\ currentMenu = last.menuBefore
        /\ (~r.net \/ (~r.ok /\ r.status # NotFound)) =>
              /\ dishGrid.kind = "error-msg"
              /\ currentMenu = last.menuBefore
              /\ allDishes = last.dishesBefore
              /\ weekDate = last.weekBefore
        /\ (\/ currentMenu # last.menuBefore
            \/ allDishes # last.dishesBefore
            \/ weekDate \notin {last.weekBefore, <<>>}) => (r.net /\ r.ok)
        /\ (r.net /\ r.ok /\ ~json(r).threw) =>
              /\ currentMenu = Val(BodyMenu(r))
              /\ weekDate = <<"Week of ", WeekStart>>
              /\ allDishes = processMenuData(BodyMenu(r))
              /\ dishGrid.kind \in {"dish-cards", "empty-msg"}

C15_Witness ==
    /\ last.op = "fetchMenu"
    /\ last.resp.net /\ last.resp.status = NotFound
    /\ last.weekBefore = InitialLabel
    /\ dishGrid = renderEmptyState
    /\ weekDate = <<>>

DayRank == [monday |-> 1, tuesday |-> 2, wednesday |-> 3, thursday |-> 4, friday |-> 5,
            saturday |-> 6, sunday |-> 7]
MealRank == [breakfast |-> 1, lunch |-> 2, dinner |-> 3]
Present(menu) ==
    {x \in (DOMAIN DayRank) \X (DOMAIN MealRank) :
        /\ x[1] \in DOMAIN menu
        /\ x[2] \in DOMAIN menu[x[1]]
        /\ menu[x[1]][x[2]] # Null}
Before(e1, e2) ==
    \/ DayRank[e1.day] < DayRank[e2.day]
    \/ DayRank[e1.day] = DayRank[e2.day] /\ MealRank[e1.type] < MealRank[e2.type]
EntryOf(menu, e) ==
    /\ <<e.day, e.type>> \in Present(menu)
    /\ DOMAIN e = {"day", "type"} \cup DOMAIN menu[e.day][e.type]
    /\ \A f \in DOMAIN menu[e.day][e.type] : e[f] = menu[e.day][e.type][f]

\* C16: the flattened list has exactly one entry for every present (day, meal) slot of
\* the menu and no other, each with the slot's day, meal type and dish, ordered Monday
\* to Sunday and within a day breakfast, lunch, dinner; a menu with only monday.lunch
\* gives one entry with day 'monday' and type 'lunch', an empty menu gives the empty
\* list, and the menu received from the server stays as it was received.
C16_Flatten ==
    /\ fetchState = "loaded" =>
          LET menu == currentMenu.v IN
          /\ Len(allDishes) = Cardinality(Present(menu))
          /\ \A i \in DOMAIN allDishes : EntryOf(menu, allDishes[i])
          /\ \A i, j \in DOMAIN allDishes : i < j => Before(allDishes[i], allDishes[j])
          /\ DOMAIN menu = {} => allDishes = <<>>
          /\ (DOMAIN menu = {"monday"} /\ DOMAIN menu.monday = {"lunch"}
                /\ menu.monday.lunch # Null) =>
                (/\ Len(allDishes) = 1
                 /\ allDishes[1].day = "monday"
                 /\ allDishes[1].type = "lunch")
    /\ (last.op = "fetchMenu" /\ fetchState = "loaded") => currentMenu = Val(BodyMenu(last.resp))

C16_Witness ==
    /\ last.op = "fetchMenu"
    /\ fetchState = "loaded"
    /\ Len(allDishes) = 2
    /\ allDishes[1].day = "monday" /\ allDishes[1].type = "dinner"
    /\ allDishes[2].day = "tuesday" /\ allDishes[2].type = "breakfast"

SameLetter(a, b) ==
    a = b \/ \E j \in DOMAIN UpperCase : {a, b} = {UpperCase[j], LowerCase[j]}
ContainsIgnoringCase(s, t) ==
    \E i \in 0..(Len(s) - Len(t)) : \A j \in 1..Len(t) : SameLetter(s[i + j], t[j])
MatchesTerm(dish, t) ==
    \/ ContainsIgnoringCase(dish.name, t)
    \/ ContainsIgnoringCase(dish.description, t)
    \/ \E k \in DOMAIN dish.ingredients : ContainsIgnoringCase(dish.ingredients[k], t)
Hits(t) == {i \in DOMAIN allDishes : MatchesTerm(allDishes[i], t)}
NthOf(S, k) == CHOOSE i \in S : Cardinality({j \in S : j <= i}) = k

\* C17: a search shows exactly the dishes of the flattened list whose name, description
\* or one of whose ingredients contains the term ignoring letter case, in their order
\* in the list; the empty term shows the whole list; the flattened list is unchanged.
C17_Search ==
    last.op = "search" =>
        LET hits == Hits(last.value)
            shown == dishGrid.dishes
        IN /\ Len(shown) = Cardinality(hits)
           /\ \A k \in DOMAIN shown : shown[k] = allDishes[NthOf(hits, k)]
           /\ last.value = <<>> => shown = allDishes
           /\ allDishes = last.dishesBefore

C17_Witness ==
    /\ last.op = "search"
    /\ last.value = <<"H", "E">>
    /\ Len(allDishes) = 2
    /\ dishGrid.kind = "dish-cards"
    /\ dishGrid.dishes = <<allDishes[2]>>

\* the view right after fetchMenu saw a 404 is the 'no menu yet' empty state, and the
\* 'no matches' view is shown only by a rendering of an empty dish list
C18_ViewsAfterRender ==
    /\ (last.op = "fetchMenu" /\ fetchState = "noMenu") => dishGrid.kind = "empty-state"
    /\ dishGrid.kind = "empty-msg" =>
          \/ last.op = "search" /\ Hits(last.value) = {}
          \/ last.op = "fetchMenu" /\ allDishes = <<>>

\* C18: the 'no matches' view and the 'no menu at all' view never substitute for each
\* other: the 'no matches' view is displayed only when a search over a loaded menu
\* matched no dish, and when no menu exists (404) the displayed view is the 'no menu
\* yet' empty state.
C18_ViewsDistinct ==
    /\ dishGrid.kind = "empty-msg" =>
          (last.op = "search" /\ fetchState = "loaded" /\ Hits(last.value) = {})
    /\ fetchState = "noMenu" => dishGrid.kind = "empty-state"

(***************************************************************************)
(* Token store: properties under SpecStore                                 *)
(***************************************************************************)
\* C19: after any sequence of set, clear and get the key holds one credential or
\* nothing; get returns the argument of the most recent set if no clear followed it
\* and absent after a clear; set stores any credential as it is, expired or malformed;
\* get never changes the store.
C19_TokenStore ==
    /\ token \in Stored
    /\ last.op = "setToken" => token = last.arg
    /\ last.op = "clearToken" => token = Absent
    /\ last.op = "getToken" =>
          /\ token = last.before
          /\ last.ret = token
          /\ last.write.op = "setToken" => last.ret = last.write.arg
          /\ last.write.op = "clearToken" => last.ret = Absent

C19_Witness ==
    /\ last.op = "getToken"
    /\ last.write.op = "setToken"
    /\ last.write.arg = TokNotJson
    /\ last.ret = TokNotJson

(***************************************************************************)
(* Session inspector: the round trip, under SpecNav                        *)
(***************************************************************************)
ClaimObjects ==
    {Claims(s, e, o) : s \in {"u1"}, e \in Exps, o \in BOOLEAN}
    \cup {[sub |-> "u2", email |-> "c@d.com", exp |-> ExpLate],
          [sub |-> "u1", email |-> "a@b.com", is_onboarded |-> TRUE]}
Carries(tok, c) == Len(tok) >= 2 /\ tok[2] = Encode(JsonObj(c))

\* C20: for a stored credential whose payload encodes {sub, email, is_onboarded}
\* getUserFromToken returns {user_id: sub, email, is_onboarded}, with is_onboarded
\* false when the claim is missing; it returns absent when nothing is stored or the
\* credential does not decode; it always returns and leaves the store as it was.
C20_RoundTrip ==
    last.op = "getUserFromToken" =>
        /\ token = last.tok
        /\ \A c \in ClaimObjects : Carries(last.tok, c) =>
              last.ret = [null |-> FALSE, user_id |-> c.sub, email |-> c.email,
                          is_onboarded |-> IF Has(c, "is_onboarded")
                                           THEN c.is_onboarded ELSE FALSE]
        /\ last.tok = Absent => last.ret = Null
        /\ last.tok \in MalformedTokens => last.ret = Null
        /\ last.ret = Null \/ ~last.ret.null

C20_Witness ==
    /\ last.op = "getUserFromToken"
    /\ last.tok = TokOnb
    /\ last.ret = [null |-> FALSE, user_id |-> "u1", email |-> "a@b.com",
                   is_onboarded |-> TRUE]

(***************************************************************************)
(* Page-load guards: properties under SpecNav                              *)
(***************************************************************************)
Valid(t, at) == HasExpiry(t) /\ ExpiryOf(t) * MsPerSec > at
OnboardedClaim(t) ==
    /\ Decodes(t)
    /\ parseJwt(t).value.k = "obj"
    /\ Has(parseJwt(t).value.f, "is_onboarded")
    /\ parseJwt(t).value.f.is_onboarded = TRUE
SubOf(t) == parseJwt(t).value.f.sub

\* where the policy sends a credential state: login without a valid credential,
\* onboarding with a valid one that is not onboarded, menu with a valid onboarded one
Destination(t, at) ==
    IF ~Valid(t, at) THEN LoginPath
    ELSE IF OnboardedClaim(t) THEN MenuPath
    ELSE RootPath
AtHome(page, dest) == page = dest \/ (dest = RootPath /\ page = IndexPath)
GuardedPages == {LoginPath, RootPath, IndexPath, MenuPath}
GuardedLoad == last.op = "load" /\ last.loaded /\ last.page \in GuardedPages

\* a loaded guarded page stays when it is the destination of the credential state and
\* otherwise redirects to that destination
C23_Settles ==
    GuardedLoad =>
        IF AtHome(last.page, Destination(last.tok, last.at))
        THEN href = path
        ELSE href = Destination(last.tok, last.at)

\* following the redirect of a guarded page's load gives a load without a redirect
C23_OneRedirect ==
    (GuardedLoad /\ href # path /\ path' = href /\ GuardedLoad') => href' = path'

C24_GuardedMenuRequest ==
    (last.op = "load" /\ last.page = MenuPath) =>
        IF last.loaded /\ Valid(last.tok, last.at) /\ OnboardedClaim(last.tok)
        THEN last.fetch = SubOf(last.tok)
        ELSE last.fetch = None

\* C24: the menu viewer issues its menu request only when the stored credential is
\* valid and onboarded, with the subject decoded from it as the user id; without a
\* valid credential or with one not onboarded no menu request is issued.
C24_MenuRequestOnlyWithCredential ==
    /\ C24_GuardedMenuRequest
    /\ last.op = "loadMenuByUserId" =>
          IF Valid(last.tok, last.at) /\ OnboardedClaim(last.tok)
          THEN last.fetch = SubOf(last.tok)
          ELSE last.fetch = None

(***************************************************************************)
(* Onboarding page, continued: properties under SpecOnboard                *)
(***************************************************************************)
\* with a valid onboarded credential stored, the menu page reached by the link stays
C25_MenuStaysWithOnboardedCredential ==
    (last.op = "viewMenu" /\ Valid(token, now) /\ OnboardedClaim(token)) =>
        (path = MenuPath /\ href = MenuPath)

\* C25: after a successful finalize has presented the profile, following the 'View My
\* Menu' link loads the menu page and its guard does not redirect back to onboarding,
\* whether or not the finalize response carried an access_token.
C25_MenuStays ==
    last.op = "viewMenu" => (path = MenuPath /\ href = MenuPath)

\* a captured session id is never reset to unset
C26_SessionIdKept == sessionId # Null => sessionId' # Null

C26_SessionIdNeverReset == [][C26_SessionIdKept]_vars

C26_SessionIdSame == sessionId # Null => sessionId' = sessionId

\* C26: once a session id has been captured by a successful start it never changes
\* and is never reset, under any interleaving of start submissions and responses, so
\* all message and finalize requests of one page load carry the same session id.
C26_SessionIdStable ==
    /\ [][C26_SessionIdSame]_vars
    /\ [](\A q, r \in msgReqs \cup finReqs : q.session_id = r.session_id)

\* the credential the onboarding page was loaded with
PageLoadCredential == TokNew

\* C27: every finalize request carries as user_id the subject decoded from the
\* credential at page load and as bearer the credential stored when the request is
\* issued; the session id is never sent as user_id, currentUser being set on every
\* page that passed its load-time guard.
C27_FinalizeIdentity ==
    /\ currentUser # Null
    /\ \A q \in finReqs :
          /\ q.user_id = Val(SubOf(PageLoadCredential))
          /\ q.user_id # q.session_id
    /\ last.op = "finalizeFetch" =>
          \E q \in finReqs \ last.finBefore : q.bearer = token

C27_Witness ==
    /\ last.op = "finalizeFetch"
    /\ token = TokOnb
    /\ \E q \in finReqs \ last.finBefore :
          q.bearer = TokOnb /\ q.user_id = Val("u1") /\ q.session_id # Null

(***************************************************************************)
(* The whole site: properties under SpecSite                               *)
(***************************************************************************)
\* a request of the onboarding page is pending, or a handler is still running
OnboardingBusy == startReqs > 0 \/ msgReqs # {} \/ finReqs # {} \/ pc # "idle"

\* every failed request that resolved has cleared the loading state
FailureClearsLoading ==
    /\ (last.op = "startResolve" /\ ~last.ok) => ~sendDisabled
    /\ last.op = "msgFailed" => ~sendDisabled
    /\ (last.op = "finalizeResolve" /\ ~last.success) => ~sendDisabled
    /\ last.op = "authFailed" => ~submitDisabled

\* C21 (as stated): after any failed request that resolves the loading state is cleared
\* and the control enabled again, and the loading state persists only while a request
\* is still pending.
C21_LoadingOnlyWhilePending ==
    /\ FailureClearsLoading
    /\ sendDisabled => OnboardingBusy
    /\ submitDisabled => (authReqs # {} \/ pc # "idle")

\* C21 (amended): as above, except that on the login page the loading state also
\* stays after a successful signup, login or Google sign-in, while the page is left
\* for the redirect target.
C21_FailureReturnsControl ==
    /\ FailureClearsLoading
    /\ sendDisabled => OnboardingBusy
    /\ submitDisabled => (authReqs # {} \/ pc # "idle" \/ href # path)

C21_Witness ==
    /\ last.op = "authFailed"
    /\ last.kind = "google"
    /\ ~submitDisabled
    /\ authReqs = {}
    /\ errorMessage # Hidden

\* one step adds requests only as the user action or page load that it is
C22_Step ==
    /\ startReqs' > startReqs => (last'.op = "startSubmit" /\ startReqs' = startReqs + 1)
    /\ msgReqs' \ msgReqs # {} =>
          /\ last'.op = "sendFetch"
          /\ last.op = "handleSendMessage"
          /\ Cardinality(msgReqs' \ msgReqs) = 1
    /\ authReqs' \ authReqs # {} =>
          /\ last'.op = "authSubmit"
          /\ Cardinality(authReqs' \ authReqs) = 1
    /\ meReqs' \ meReqs # {} =>
          /\ last'.op = "getCurrentUser" /\ last'.phase = "call"
          /\ Cardinality(meReqs' \ meReqs) = 1
    /\ finReqs' \ finReqs # {} =>
          /\ last'.op = "finalizeFetch"
          /\ Cardinality(finReqs' \ finReqs) = 1
          /\ nFin' = nFin + 1
    /\ (fetchState' = "pending" /\ fetchState # "pending") => last'.op = "reload"

\* requests never outnumber the actions that cause them
C22_Counts ==
    /\ nFin <= nComplete
    /\ Cardinality(msgReqs) <= nSend
    /\ Cardinality(authReqs) <= nAuth
    /\ startReqs <= nStart
    /\ Cardinality(meReqs) <= nMe
    /\ (last.op = "authFailed" \/ last.op = "msgFailed"
        \/ (last.op = "startResolve" /\ ~last.ok)
        \/ (last.op = "finalizeResolve" /\ ~last.success)) => pc = "idle"
    /\ last.op = "fetchMenu" => fetchState # "pending"

\* C22: no automatic retry: every request is caused by one user action, one page load
\* or (finalize) one completion signal, so requests never outnumber those, and a
\* failed request is never issued again without a new user action.
C22_NoAutomaticRetry == [][C22_Step]_vars /\ []C22_Counts

C22_Witness ==
    /\ last.op = "msgFailed"
    /\ msgReqs = {}
    /\ nSend = 1
    /\ finReqs = {}
    /\ pc = "idle"

\* one step changes the stored credential only as one of the four events
C28_Frame ==
    token' # token =>
        \/ last'.op = "authStored"
        \/ /\ last'.op = "finalizeResolve"
           /\ last'.success
           /\ last'.access_token # Absent
           /\ token' = setToken(last'.access_token)
        \/ last'.op = "logout" /\ token' = clearToken
        \/ /\ last'.op = "getCurrentUser"
           /\ last'.phase = "response"
           /\ last'.resp.net
           /\ last'.resp.status = Unauthorized
           /\ token' = clearToken

C28_AfterLogout == last.op = "logout" => (token = Absent /\ href = LoginPath)

\* C28: the stored credential changes only by a successful signup, login or Google
\* sign-in, a successful finalize whose response carries an access_token, logout, and
\* getCurrentUser receiving 401; every other operation leaves it unchanged, the guards
\* never remove an expired or undecodable credential, and after logout the credential
\* is absent and the location is the login page.
C28_CredentialChanges == [][C28_Frame]_vars /\ []C28_AfterLogout

C28_Witness ==
    /\ last.op = "logout"
    /\ Expired(last.tok, last.at)
    /\ token = Absent
    /\ href = LoginPath
    /\ path = MenuPath
====
